---- MODULE Spec2Model ----
(***************************************************************************)
(* State-machine model of PoC.py: a main thread that writes one payload    *)
(* file, starts args.threads worker threads paced by time.sleep, joins     *)
(* them and removes the file; each worker runs make_request once.          *)
(***************************************************************************)
EXTENDS Integers, Sequences, FiniteSets, TLC

\* ------------------------------------------------------------------ bounds
MaxThreads == 3      \* largest --threads value explored
MaxBatch == 2        \* largest --batch-size value explored
MaxDelay == 1        \* the non-zero value explored for --delay / --batch-delay
MaxOvershoot == 1    \* largest time by which one time.sleep may overshoot
PayloadChunks == 2   \* number of writes json.dump needs for the whole payload
MaxText == 402       \* longest body / error text explored by the detail formatting

\* ----------------------------------------------------- program constants
PreviewSuccess == 400     \* json.dumps(data, indent=2)[:400]
PreviewMalformed == 300   \* result.stdout[:300]

\* ------------------------------------------------------------------- state
VARIABLES
    args,         \* the parsed command line: threads, batch_size, delay, batch_delay
    pc,           \* position of the main thread
    i,            \* loop variable of "for i in range(args.threads)"
    threads,      \* the list "threads": ids of the threads started, in order
    joined,       \* number of list entries the join loop has passed
    fileExists,   \* the temporary payload file exists on disk
    fileContent,  \* number of payload chunks the file holds
    buildCount,   \* how many times the payload file has been created
    wpc,          \* position of each worker thread inside make_request
    result,       \* the CompletedProcess a worker got and reported on (NoResult:
                  \* not yet, or an exception took the worker to the except clause)
    outcomes,     \* per worker, the outcome lines it has printed
    seen,         \* the payload contents curl has read, over all workers
    elapsed,      \* clock time since the latest t.start(), saturating at ClockCap
                  \* (Missing outside the launch loop)
    interPauses,  \* number of time.sleep(args.delay) calls made
    batchPauses,  \* number of time.sleep(args.batch_delay) calls made
    batchAfter,   \* the loop indices after which the batch sleep was made
    lastDone,     \* thread_id of the outcome line that came last of the whole
                  \* run (Missing while some worker may still print one)
    kind,         \* outcome line whose detail is being formatted
    text,         \* length of the text that line reports on
    detail        \* length of the detail the line prints

vars == <<args, pc, i, threads, joined, fileExists, fileContent, buildCount,
          wpc, result, outcomes, seen, elapsed,
          interPauses, batchPauses, batchAfter, lastDone, kind, text, detail>>

\* The variables of the detail formatting of lines 92-98 taken alone.
reportVars == <<kind, text, detail>>

mainVars == <<args, pc, i, threads, joined, buildCount, elapsed,
              interPauses, batchPauses, batchAfter>>

fileVars == <<fileExists, fileContent>>

Ids == 0 .. (MaxThreads - 1)

Missing == 0 - 1

\* The longest gap the pacing of this run asks for between two launches.
ClockCap == args.delay + args.batch_delay

\* The values argparse may hand over: type=int accepts any integer for
\* --threads and --batch-size, so zero and negatives are included.
ArgSpace ==
    [threads : (0 - 1) .. MaxThreads,
     batch_size : (0 - 1) .. MaxBatch,
     delay : {0, MaxDelay},
     batch_delay : {0, MaxDelay}]

\* Python's a % b for a > 0 and b # 0: the result has the sign of b.
PyMod(a, b) ==
    IF b > 0 THEN a % b
    ELSE LET m == a % (0 - b) IN IF m = 0 THEN 0 ELSE m + b

\* range(n) taken to include n itself.
InRangeInclusive(k, n) == 0 <= k /\ k <= n

\* range(n): empty when n <= 0.
InRange(k, n) == 0 <= k /\ k < n

\* What subprocess.run can return: curl's exit status (1 stands for every
\* non-zero status) and whether its stdout is a JSON document.
Results == [returncode : {0, 1}, json : BOOLEAN]

NoResult == [returncode |-> Missing, json |-> FALSE]

\* Lines 89-96: the outcome line printed for a CompletedProcess.
Classify(r) ==
    IF r.returncode = 0
    THEN IF r.json THEN "Success" ELSE "MalformedResponse"
    ELSE "TransportFailure"

Terminated(id) == wpc[id] \in {"done", "escaped"}

Init ==
    /\ args \in ArgSpace
    /\ pc = "create"
    /\ i = 0
    /\ threads = << >>
    /\ joined = 0
    /\ fileExists = FALSE
    /\ fileContent = 0
    /\ buildCount = 0
    /\ wpc = [id \in Ids |-> "idle"]
    /\ result = [id \in Ids |-> NoResult]
    /\ outcomes = [id \in Ids |-> << >>]
    /\ seen = {}
    /\ elapsed = Missing
    /\ interPauses = 0
    /\ batchPauses = 0
    /\ batchAfter = {}
    /\ lastDone = Missing
    /\ kind = "none"
    /\ text = 0
    /\ detail = Missing

\* --------------------------------------------------------- payload build
\* tempfile.NamedTemporaryFile(delete=False, ...): the file appears, empty.
BuildCreate ==
    /\ UNCHANGED <<lastDone, reportVars>>
    /\ pc = "create"
    /\ pc' = "dump"
    /\ fileExists' = TRUE
    /\ fileContent' = 0
    /\ buildCount' = buildCount + 1
    /\ UNCHANGED <<args, i, threads, joined, wpc, result, outcomes, seen, elapsed, interPauses, batchPauses, batchAfter>>

\* json.dump(..., temp_payload_file): the document reaches the file in pieces.
BuildDump ==
    /\ UNCHANGED <<lastDone, reportVars>>
    /\ pc = "dump"
    /\ fileContent < PayloadChunks
    /\ fileContent' = fileContent + 1
    /\ pc' = IF fileContent + 1 = PayloadChunks THEN "close" ELSE "dump"
    /\ UNCHANGED <<args, i, threads, joined, fileExists, buildCount, wpc, result,
                   outcomes, seen, elapsed, interPauses,
                   batchPauses, batchAfter>>

\* temp_payload_file.close(), then the loop variable starts at 0.
BuildClose ==
    /\ UNCHANGED <<lastDone, reportVars>>
    /\ pc = "close"
    /\ pc' = "loop"
    /\ i' = 0
    /\ UNCHANGED <<args, threads, joined, fileVars, buildCount, wpc, result, outcomes,
                   seen, elapsed, interPauses, batchPauses,
                   batchAfter>>

\* BuildFault with the exception swallowed: the script goes on to the loop.
BuildFaultIgnored ==
    /\ UNCHANGED <<lastDone, reportVars>>
    /\ pc \in {"create", "dump", "close"}
    /\ pc' = "loop"
    /\ UNCHANGED <<args, i, threads, joined, fileVars, buildCount, wpc, result,
                   outcomes, seen, elapsed, interPauses,
                   batchPauses, batchAfter>>

\* Any of lines 70-76 raising (no temp directory, disk full, ...): nothing
\* catches it, the script ends with a traceback; delete=False leaves whatever
\* was written on disk.
BuildFault ==
    /\ UNCHANGED <<lastDone, reportVars>>
    /\ pc \in {"create", "dump", "close"}
    /\ pc' = "build_failed"
    /\ UNCHANGED <<args, i, threads, joined, fileVars, buildCount, wpc, result,
                   outcomes, seen, elapsed, interPauses,
                   batchPauses, batchAfter>>

\* ------------------------------------------------------------- scheduler
\* time.sleep(d) returns after at least d. The clock is kept as the time
\* since the latest t.start() and saturates at ClockCap, above every gap the
\* pacing can ask for.
Sleep(d) ==
    \E o \in 0 .. MaxOvershoot :
        elapsed' = IF elapsed + d + o > ClockCap THEN ClockCap ELSE elapsed + d + o

\* Launch that starts the next thread only once the previous one has ended.
LaunchAfterPrevious ==
    /\ UNCHANGED <<lastDone, reportVars>>
    /\ pc = "loop"
    /\ InRange(i, args.threads)
    /\ IF i = 0 THEN TRUE ELSE Terminated(i - 1)
    /\ wpc' = [wpc EXCEPT ![i] = "running"]
    /\ threads' = Append(threads, i)
    /\ elapsed' = 0
    /\ pc' = "batch"
    /\ UNCHANGED <<args, i, joined, fileVars, buildCount, result, outcomes, seen,
                   interPauses, batchPauses, batchAfter>>

\* Launch that starts the thread and forgets threads.append(t).
LaunchNoAppend ==
    /\ UNCHANGED <<lastDone, reportVars>>
    /\ pc = "loop"
    /\ InRange(i, args.threads)
    /\ wpc' = [wpc EXCEPT ![i] = "running"]
    /\ elapsed' = 0
    /\ pc' = "batch"
    /\ UNCHANGED <<args, i, threads, joined, fileVars, buildCount, result, outcomes,
                   seen, interPauses, batchPauses, batchAfter>>

\* Launch that writes the payload file again for every thread.
LaunchRebuild ==
    /\ UNCHANGED <<lastDone, reportVars>>
    /\ pc = "loop"
    /\ InRange(i, args.threads)
    /\ wpc' = [wpc EXCEPT ![i] = "running"]
    /\ threads' = Append(threads, i)
    /\ elapsed' = 0
    /\ pc' = "batch"
    /\ buildCount' = buildCount + 1
    /\ UNCHANGED <<args, i, joined, fileVars, result, outcomes, seen,
                   interPauses, batchPauses, batchAfter>>

\* Lines 102-106: the next index of range(args.threads) gets its thread,
\* which is started and appended to the list.
Launch ==
    /\ UNCHANGED <<lastDone, reportVars>>
    /\ pc = "loop"
    /\ InRange(i, args.threads)
    /\ wpc' = [wpc EXCEPT ![i] = "running"]
    /\ threads' = Append(threads, i)
    /\ elapsed' = 0
    /\ pc' = "batch"
    /\ UNCHANGED <<args, i, joined, fileVars, buildCount, result, outcomes, seen,
                   interPauses, batchPauses, batchAfter>>

\* Lines 102, 116: range(args.threads) is exhausted, the join loop begins;
\* no launch follows, so the pacing clock is read no more and is dropped.
LoopExit ==
    /\ UNCHANGED <<lastDone, reportVars>>
    /\ pc = "loop"
    /\ ~InRange(i, args.threads)
    /\ pc' = "join"
    /\ joined' = 0
    /\ elapsed' = Missing
    /\ UNCHANGED <<args, i, threads, fileVars, buildCount, wpc, result, outcomes,
                   seen, interPauses, batchPauses, batchAfter>>

\* BatchCheck with the batch test made on i instead of i + 1.
BatchCheckOffByOne ==
    /\ UNCHANGED <<lastDone, reportVars>>
    /\ pc = "batch"
    /\ IF args.batch_size = 0
       THEN /\ pc' = "aborted"
            /\ UNCHANGED <<elapsed, batchPauses, batchAfter>>
       ELSE IF i > 0 /\ PyMod(i, args.batch_size) = 0
       THEN /\ Sleep(args.batch_delay)
            /\ batchPauses' = batchPauses + 1
            /\ batchAfter' = batchAfter \cup {i}
            /\ pc' = "delay"
       ELSE /\ pc' = "delay"
            /\ UNCHANGED <<elapsed, batchPauses, batchAfter>>
    /\ UNCHANGED <<args, i, threads, joined, fileVars, buildCount, wpc, result,
                   outcomes, seen, interPauses>>

\* Lines 108-110: (i + 1) % args.batch_size raises ZeroDivisionError for a
\* batch size of 0; otherwise the batch sleep is made on a zero remainder.
BatchCheck ==
    /\ UNCHANGED <<lastDone, reportVars>>
    /\ pc = "batch"
    /\ IF args.batch_size = 0
       THEN /\ pc' = "aborted"
            /\ UNCHANGED <<elapsed, batchPauses, batchAfter>>
       ELSE IF PyMod(i + 1, args.batch_size) = 0
       THEN /\ Sleep(args.batch_delay)
            /\ batchPauses' = batchPauses + 1
            /\ batchAfter' = batchAfter \cup {i}
            /\ pc' = "delay"
       ELSE /\ pc' = "delay"
            /\ UNCHANGED <<elapsed, batchPauses, batchAfter>>
    /\ UNCHANGED <<args, i, threads, joined, fileVars, buildCount, wpc, result,
                   outcomes, seen, interPauses>>

\* InterLaunchDelay with the sleep of line 113 left out.
InterLaunchNoSleep ==
    /\ UNCHANGED <<lastDone, reportVars>>
    /\ pc = "delay"
    /\ interPauses' = interPauses + 1
    /\ i' = i + 1
    /\ pc' = "loop"
    /\ UNCHANGED <<args, threads, joined, fileVars, buildCount, wpc, result, outcomes,
                   seen, elapsed, batchPauses, batchAfter>>

\* Lines 112-113, then the for statement takes the next index.
InterLaunchDelay ==
    /\ UNCHANGED <<lastDone, reportVars>>
    /\ pc = "delay"
    /\ Sleep(args.delay)
    /\ interPauses' = interPauses + 1
    /\ i' = i + 1
    /\ pc' = "loop"
    /\ UNCHANGED <<args, threads, joined, fileVars, buildCount, wpc, result, outcomes,
                   seen, batchPauses, batchAfter>>

\* A statement of the loop body raising (print on a closed stdout,
\* threading's "can't start new thread", ...): the loop has no try, so the
\* main thread ends with a traceback; os.remove is never reached and the
\* threads already started run on (the interpreter waits for them at exit).
MainFault ==
    /\ UNCHANGED <<lastDone, reportVars>>
    /\ \/ pc = "loop" /\ InRange(i, args.threads)
       \/ pc = "batch" /\ args.batch_size # 0 /\ PyMod(i + 1, args.batch_size) = 0
       \/ pc = "delay"
    /\ pc' = "aborted"
    /\ elapsed' = Missing
    /\ UNCHANGED <<args, i, threads, joined, fileVars, buildCount, wpc, result,
                   outcomes, seen, interPauses, batchPauses,
                   batchAfter>>

\* Join that waits for the thread's outcome line instead of the thread's end.
JoinAwaitsOutcome ==
    /\ UNCHANGED <<lastDone, reportVars>>
    /\ pc = "join"
    /\ joined < Len(threads)
    /\ Len(outcomes[threads[joined + 1]]) = 1
    /\ joined' = joined + 1
    /\ UNCHANGED <<args, pc, i, threads, fileVars, buildCount, wpc, result, outcomes,
                   seen, elapsed, interPauses, batchPauses, batchAfter>>

\* Join that passes a list entry without waiting for its thread to end.
JoinNoWait ==
    /\ UNCHANGED <<lastDone, reportVars>>
    /\ pc = "join"
    /\ joined < Len(threads)
    /\ joined' = joined + 1
    /\ UNCHANGED <<args, pc, i, threads, fileVars, buildCount, wpc, result, outcomes,
                   seen, elapsed, interPauses, batchPauses, batchAfter>>

\* Lines 116-117: t.join() for the next list entry returns once that thread
\* has ended, however it ended.
Join ==
    /\ UNCHANGED <<lastDone, reportVars>>
    /\ pc = "join"
    /\ joined < Len(threads)
    /\ Terminated(threads[joined + 1])
    /\ joined' = joined + 1
    /\ UNCHANGED <<args, pc, i, threads, fileVars, buildCount, wpc, result, outcomes,
                   seen, elapsed, interPauses, batchPauses, batchAfter>>

\* Remove placed before the join loop.
RemoveWithoutJoin ==
    /\ UNCHANGED <<lastDone, reportVars>>
    /\ pc = "join"
    /\ fileExists' = FALSE
    /\ fileContent' = 0
    /\ pc' = "report"
    /\ UNCHANGED <<args, i, threads, joined, buildCount, wpc, result, outcomes, seen,
                   elapsed, interPauses, batchPauses, batchAfter>>

\* Line 120: the join loop is over, os.remove deletes the payload file.
Remove ==
    /\ UNCHANGED <<lastDone, reportVars>>
    /\ pc = "join"
    /\ joined = Len(threads)
    /\ fileExists' = FALSE
    /\ fileContent' = 0
    /\ pc' = "report"
    /\ UNCHANGED <<args, i, threads, joined, buildCount, wpc, result, outcomes, seen,
                   elapsed, interPauses, batchPauses, batchAfter>>

\* Lines 121-122: the removal and "All threads completed." are reported; the
\* script is then complete (what follows waits for the operator). A print
\* raising here ends the script with a traceback instead.
Report ==
    /\ UNCHANGED <<lastDone, reportVars>>
    /\ pc = "report"
    /\ pc' \in {"done", "report_failed"}
    /\ UNCHANGED <<args, i, threads, joined, fileVars, buildCount, wpc, result,
                   outcomes, seen, elapsed, interPauses, batchPauses, batchAfter>>

\* ---------------------------------------------------------------- workers
\* The worker printing its outcome line is the last one of the run when
\* every index of range(args.threads) has been started and no other worker
\* is still running.
LastLine(id) ==
    IF /\ Len(threads) = Cardinality({k \in Ids : InRange(k, args.threads)})
       /\ \A j \in Ids \ {id} : wpc[j] \in {"idle", "done", "escaped"}
    THEN id
    ELSE lastDone

\* What curl reads from -d@<file>.
ReadPayload == IF fileExists THEN fileContent ELSE Missing

\* Lines 81-88: the start line is printed, the command is built and
\* subprocess.run returns a CompletedProcess (curl has read the payload file);
\* or one of these statements raises and control goes to the except clause.
WorkerRun(id) ==
    /\ UNCHANGED <<lastDone, reportVars>>
    /\ wpc[id] = "running"
    /\ \/ /\ seen' = seen \cup {ReadPayload}
          /\ \E r \in Results :
                /\ (~fileExists => r.returncode # 0)
                /\ result' = [result EXCEPT ![id] = r]
          /\ wpc' = [wpc EXCEPT ![id] = "got"]
       \/ /\ wpc' = [wpc EXCEPT ![id] = "handler"]
          /\ UNCHANGED <<result, seen>>
    /\ UNCHANGED <<mainVars, fileVars, outcomes>>

\* WorkerReport that prints its line only after all earlier threads have ended.
WorkerReportInOrder(id) ==
    /\ UNCHANGED reportVars
    /\ wpc[id] = "got"
    /\ \A j \in Ids : j < id => Terminated(j)
    /\ \/ /\ outcomes' = [outcomes EXCEPT ![id] = Append(@, Classify(result[id]))]
          /\ wpc' = [wpc EXCEPT ![id] = "done"]
          /\ lastDone' = LastLine(id)
          /\ UNCHANGED result
       \/ /\ wpc' = [wpc EXCEPT ![id] = "handler"]
          /\ result' = [result EXCEPT ![id] = NoResult]
          /\ UNCHANGED <<outcomes, lastDone>>
    /\ UNCHANGED <<mainVars, fileVars, seen>>

\* WorkerReport that stops the whole run when curl reports an error.
WorkerReportFailFast(id) ==
    /\ UNCHANGED reportVars
    /\ wpc[id] = "got"
    /\ \/ /\ outcomes' = [outcomes EXCEPT ![id] = Append(@, Classify(result[id]))]
          /\ wpc' = [wpc EXCEPT ![id] = "done"]
          /\ lastDone' = LastLine(id)
          /\ pc' = IF result[id].returncode = 0 THEN pc ELSE "aborted"
          /\ UNCHANGED result
       \/ /\ wpc' = [wpc EXCEPT ![id] = "handler"]
          /\ result' = [result EXCEPT ![id] = NoResult]
          /\ UNCHANGED lastDone
          /\ UNCHANGED <<outcomes, pc>>
    /\ UNCHANGED <<args, i, threads, joined, buildCount, elapsed, interPauses,
                   batchPauses, batchAfter, fileVars, seen>>

\* Lines 89-96: the CompletedProcess is classified and its line printed; a
\* statement raising here (json.loads with something other than
\* JSONDecodeError, json.dumps, print) goes to the except clause.
WorkerReport(id) ==
    /\ UNCHANGED reportVars
    /\ wpc[id] = "got"
    /\ \/ /\ outcomes' = [outcomes EXCEPT ![id] = Append(@, Classify(result[id]))]
          /\ wpc' = [wpc EXCEPT ![id] = "done"]
          /\ lastDone' = LastLine(id)
          /\ UNCHANGED result
       \/ /\ wpc' = [wpc EXCEPT ![id] = "handler"]
          /\ result' = [result EXCEPT ![id] = NoResult]
          /\ UNCHANGED lastDone
          /\ UNCHANGED outcomes
    /\ UNCHANGED <<mainVars, fileVars, seen>>

\* Lines 97-98: the except clause prints the exception line and make_request
\* returns; this print is outside any try, so if it raises the exception
\* leaves make_request and the thread ends without an outcome line.
WorkerExcept(id) ==
    /\ UNCHANGED reportVars
    /\ wpc[id] = "handler"
    /\ \/ /\ outcomes' = [outcomes EXCEPT ![id] = Append(@, "RuntimeFault")]
          /\ wpc' = [wpc EXCEPT ![id] = "done"]
          /\ lastDone' = LastLine(id)
       \/ /\ wpc' = [wpc EXCEPT ![id] = "escaped"]
          /\ UNCHANGED <<outcomes, lastDone>>
    /\ UNCHANGED <<mainVars, fileVars, result, seen>>

Next ==
    \/ BuildCreate
    \/ BuildDump
    \/ BuildClose
    \/ BuildFault
    \/ Launch
    \/ LoopExit
    \/ BatchCheck
    \/ InterLaunchDelay
    \/ MainFault
    \/ Join
    \/ Remove
    \/ Report
    \/ \E id \in Ids : WorkerRun(id)
    \/ \E id \in Ids : WorkerReport(id)
    \/ \E id \in Ids : WorkerExcept(id)

Spec == Init /\ [][Next]_vars

\* Runs with --delay 0 --batch-delay 0. time.sleep returns whatever its
\* argument, so the sleep lengths change the pacing clock only and not which
\* statement is reached next.
FairInit == Init /\ args.delay = 0 /\ args.batch_delay = 0

\* The interpreter keeps running whatever thread can run: some enabled step
\* is eventually taken (sleeps end, curl returns, runnable threads run).
FairSpec == FairInit /\ [][Next]_vars /\ WF_vars(Next)

\* ------------------------------------------------------ detail formatting
OutcomeKinds == {"Success", "MalformedResponse", "TransportFailure", "RuntimeFault"}

\* len(s[:n]) for a string s of length len.
Slice(len, n) == IF len < n THEN len ELSE n

\* Length of the detail each outcome line prints for a text of length len:
\* line 92 cuts the re-serialized JSON, line 94 cuts stdout, line 96 prints
\* result.stderr and line 98 prints str(e) as they are.
DetailLen(k, len) ==
    CASE k = "Success" -> Slice(len, PreviewSuccess)
      [] k = "MalformedResponse" -> Slice(len, PreviewMalformed)
      [] k = "TransportFailure" -> len
      [] k = "RuntimeFault" -> len

\* One outcome line about to be printed, for every kind and text length.
DetailInit ==
    /\ args = [threads |-> 0, batch_size |-> 1, delay |-> 0, batch_delay |-> 0]
    /\ pc = "create"
    /\ i = 0
    /\ threads = << >>
    /\ joined = 0
    /\ fileExists = FALSE
    /\ fileContent = 0
    /\ buildCount = 0
    /\ wpc = [id \in Ids |-> "idle"]
    /\ result = [id \in Ids |-> NoResult]
    /\ outcomes = [id \in Ids |-> << >>]
    /\ seen = {}
    /\ elapsed = Missing
    /\ interPauses = 0
    /\ batchPauses = 0
    /\ batchAfter = {}
    /\ lastDone = Missing
    /\ kind \in OutcomeKinds
    /\ text \in 0 .. MaxText
    /\ detail = Missing

\* Lines 92, 94, 96, 98: the line's detail is formatted and printed.
FormatDetail ==
    /\ detail = Missing
    /\ kind \in OutcomeKinds
    /\ detail' = DetailLen(kind, text)
    /\ UNCHANGED <<args, pc, i, threads, joined, fileVars, buildCount, wpc, result,
                   outcomes, seen, elapsed, interPauses, batchPauses, batchAfter,
                   lastDone, kind, text>>

DetailSpec == DetailInit /\ [][FormatDetail]_vars

\* ------------------------------------------------------------ properties
\* LaunchPlan validity as the specification states it.
ValidPlan == args.threads >= 0 /\ args.batch_size > 0

\* range(args.threads) as a set of worker ids.
Planned == {id \in Ids : InRange(id, args.threads)}

\* The payload file was created and is gone again: os.remove has run.
Removed == buildCount > 0 /\ ~fileExists

\* The launch loop has run to its end.
LoopOver == pc \in {"join", "report", "done", "report_failed"}

\* C1: for a valid plan no worker ever has more than one outcome, and once
\* the run has completed every index of range(threads) has exactly one
\* outcome and no other index has any.
C1_ExactlyOneOutcomeEach ==
    ValidPlan =>
        /\ \A id \in Ids : Len(outcomes[id]) <= 1
        /\ pc = "done" =>
              \A id \in Ids : Len(outcomes[id]) = IF id \in Planned THEN 1 ELSE 0

\* C2: the payload file is removed only after every worker of the run has
\* been launched and its thread has ended; while a worker is unlaunched or
\* still running the complete file is on disk.
C2_ReleasedOnlyAfterAllEnded ==
    /\ Removed => \A id \in Planned : Terminated(id)
    /\ \A id \in Ids : wpc[id] \in {"running", "got", "handler"} =>
          fileExists /\ fileContent = PayloadChunks

C2_Witness ==
    /\ Removed
    /\ Len(threads) = MaxThreads
    /\ \E id \in Planned : Len(outcomes[id]) = 1

\* The gap the pacing asks for between launch k and launch k + 1.
RequiredGap(k) ==
    args.delay + (IF PyMod(k + 1, args.batch_size) = 0 THEN args.batch_delay ELSE 0)

\* C3: threads are started in index order 0, 1, ..., each once; a finished
\* loop has started all of range(threads); and whenever the loop is about to
\* start index i >= 1, at least delay (plus batch_delay after a batch
\* boundary) has passed on the clock since index i - 1 was started.
C3_SequentialPacedLaunch ==
    /\ \A k \in 1 .. Len(threads) : threads[k] = k - 1
    /\ \A id \in Ids : (wpc[id] # "idle") <=> (id < Len(threads))
    /\ LoopOver => Len(threads) = Cardinality(Planned)
    /\ (pc = "loop" /\ i >= 1) =>
          /\ Len(threads) = i
          /\ elapsed >= 0
          /\ elapsed >= RequiredGap(i - 1)

C3_Witness ==
    /\ pc = "loop"
    /\ i >= 1
    /\ InRange(i, args.threads)
    /\ args.batch_size > 0
    /\ PyMod(i, args.batch_size) = 0
    /\ args.delay > 0
    /\ args.batch_delay > 0
    /\ elapsed = args.delay + args.batch_delay

\* The indices of 0 .. n-1 that close a batch.
BatchEnds(n) == {k \in 0 .. (n - 1) : PyMod(k + 1, args.batch_size) = 0}

\* C4: for a valid plan, after k completed loop iterations the loop has made
\* exactly k inter-launch sleeps and exactly k \div batch_size batch sleeps,
\* the batch sleeps being those after the indices k with (k+1) % batch_size
\* = 0; a finished loop has made all threads iterations.
C4_PauseCounts ==
    (ValidPlan /\ (pc = "loop" \/ LoopOver)) =>
        /\ LoopOver => i = args.threads
        /\ interPauses = i
        /\ batchPauses = i \div args.batch_size
        /\ batchAfter = BatchEnds(i)

\* A finished run whose last batch is partial: 3 launches in batches of 2.
C4_Witness ==
    /\ pc = "done"
    /\ args.threads = 3
    /\ args.batch_size = 2
    /\ batchAfter = {1}
    /\ interPauses = 3

\* What one step of worker k may touch: its own position, result and
\* outcome, and nothing of the main thread or of another worker; and a
\* non-zero curl status reported without an exception is a TransportFailure.
C5_WorkerStep(k) ==
    (wpc'[k] # wpc[k] /\ wpc[k] # "idle") =>
        /\ \A j \in Ids \ {k} :
              /\ wpc'[j] = wpc[j]
              /\ result'[j] = result[j]
              /\ outcomes'[j] = outcomes[j]
        /\ UNCHANGED <<args, pc, i, threads, joined>>
        /\ (wpc[k] = "got" /\ result[k].returncode # 0 /\ wpc'[k] = "done") =>
              outcomes'[k] = <<"TransportFailure">>

\* C5: fault isolation. A step of worker k (a failing transport included)
\* leaves every other worker and the launch loop as they were; a worker that
\* reported a CompletedProcess has the outcome of its own CompletedProcess
\* alone; and the loop can start the next index whatever the workers did.
C5_FaultIsolation ==
    [][/\ \A k \in Ids : C5_WorkerStep(k)
       /\ \A j \in Ids : (wpc[j] = "done" /\ result[j] # NoResult) =>
             outcomes[j] = <<Classify(result[j])>>
       /\ (pc = "loop" /\ InRange(i, args.threads)) => ENABLED Launch]_vars

C5_Witness ==
    /\ pc = "done"
    /\ Len(threads) = Cardinality(Planned)
    /\ \E k, j \in Planned :
          /\ k # j
          /\ outcomes[k] = <<"TransportFailure">>
          /\ outcomes[j] = <<"Success">>

\* C6: make_request always ends with an outcome line and no exception ever
\* leaves it.
C6_AlwaysReturnsOutcome ==
    \A id \in Ids :
        /\ wpc[id] # "escaped"
        /\ Terminated(id) => Len(outcomes[id]) = 1

\* The outcome the four cases of the specification assign.
ExpectedOutcome(r) ==
    CASE r = NoResult -> "RuntimeFault"
      [] r # NoResult /\ r.returncode # 0 -> "TransportFailure"
      [] r # NoResult /\ r.returncode = 0 /\ ~r.json -> "MalformedResponse"
      [] OTHER -> "Success"

\* C7: every worker that has ended has exactly the one outcome its case
\* assigns: TransportFailure for a non-zero status, MalformedResponse for
\* status 0 with an undecodable body, Success for status 0 with a decodable
\* body, RuntimeFault when an exception was raised.
C7_OutcomeByCase ==
    \A id \in Ids : Terminated(id) => outcomes[id] = <<ExpectedOutcome(result[id])>>

\* C8: the payload file is written once per run whatever the thread count,
\* from the end of the build to os.remove it holds the complete payload, and
\* every curl reads that same complete content.
C8_BuiltOnceNeverMutated ==
    /\ buildCount <= 1
    /\ pc \notin {"create", "build_failed"} => buildCount = 1
    /\ pc \in {"close", "loop", "batch", "delay", "join", "aborted"} =>
          fileExists /\ fileContent = PayloadChunks
    /\ Cardinality(seen) <= 1
    /\ seen \subseteq {PayloadChunks}

C8_Witness ==
    /\ buildCount = 1
    /\ fileExists
    /\ seen = {PayloadChunks}
    /\ \E a, b \in Ids : a # b /\ result[a] # NoResult /\ result[b] # NoResult

\* C9: a thread is started only after the payload file was written in full
\* and closed; a failed build leaves every worker unstarted; and no curl
\* ever reads a partial or missing payload.
C9_NoLaunchWithoutPayload ==
    /\ (threads # << >> \/ \E id \in Ids : wpc[id] # "idle") =>
          pc \notin {"create", "dump", "close", "build_failed"}
    /\ pc = "build_failed" =>
          /\ threads = << >>
          /\ \A id \in Ids : wpc[id] = "idle" /\ outcomes[id] = << >>
    /\ \A c \in seen : c = PayloadChunks

\* The build failed after part of the payload was written, with workers asked for.
C9_Witness ==
    /\ pc = "build_failed"
    /\ args.threads > 0
    /\ fileExists
    /\ fileContent > 0
    /\ fileContent < PayloadChunks
    /\ threads = << >>

\* C10: with the payload built and a valid plan, the main thread never ends
\* early: nothing but a build failure aborts the run.
C10_OnlyBuildFailureAborts ==
    ValidPlan => pc # "aborted"

\* The workers whose thread was started and has not ended.
InFlight == {id \in Ids : wpc[id] \in {"running", "got", "handler"}}

\* The next step of an in-flight worker can be taken.
CanStep(id) ==
    /\ wpc[id] = "running" => ENABLED WorkerRun(id)
    /\ wpc[id] = "got" => ENABLED WorkerReport(id)
    /\ wpc[id] = "handler" => ENABLED WorkerExcept(id)

\* C11: the sleeps of the launch loop hold back launching only. While the
\* main thread is in a batch or inter-launch pause every started worker can
\* take its next step, and at the loop head the next index can be started
\* whatever the earlier workers are doing (none has to have ended).
C11_PausesBlockOnlyLaunching ==
    /\ pc \in {"batch", "delay"} => \A id \in InFlight : CanStep(id)
    /\ (pc = "loop" /\ InRange(i, args.threads)) => ENABLED Launch

\* Index 1 was started while worker 0 was still awaiting curl, and worker 1
\* ran to its outcome while the main thread was in the pause after launch 1.
C11_Witness ==
    /\ pc = "delay"
    /\ i = 1
    /\ wpc[0] = "running"
    /\ wpc[1] = "done"

\* C12: the completion report of lines 121-122 is printed only after the
\* join loop has passed every started thread, with every worker of the run
\* started and ended: none is still in flight.
C12_ReportOnlyAfterAllEnded ==
    pc \in {"report", "done", "report_failed"} =>
        /\ joined = Len(threads)
        /\ Len(threads) = Cardinality(Planned)
        /\ InFlight = {}
        /\ \A id \in Planned : Terminated(id)

C12_Witness ==
    /\ pc = "done"
    /\ args.threads = MaxThreads
    /\ \A id \in Planned : Len(outcomes[id]) = 1

\* Every outcome line printed so far, as (thread_id, position) pairs.
OutcomeLines == UNION {{<<id, n>> : n \in 1 .. Len(outcomes[id])} : id \in Ids}

\* Number of outcome lines of one kind.
CountKind(k) == Cardinality({p \in OutcomeLines : outcomes[p[1]][p[2]] = k})

\* C13: the per-kind counts of outcome lines add up to the number of lines
\* printed so far, and at the end of the run to the number of threads started.
C13_CountsMatchDispatched ==
    /\ CountKind("Success") + CountKind("MalformedResponse")
          + CountKind("TransportFailure") + CountKind("RuntimeFault")
          = Cardinality(OutcomeLines)
    /\ pc = "done" => Cardinality(OutcomeLines) = Len(threads)

\* The main thread ended with a traceback before the join loop.
Abnormal == pc \in {"build_failed", "aborted"}

\* C14: under fair scheduling a run that does not end abnormally eventually
\* has every thread started and ended, the join loop passed and the payload
\* file removed; and the file is never removed while a started thread has
\* not ended, so a worker that never ends keeps the join loop and the file.
C14_NormalCompletion ==
    /\ <>(\/ Abnormal
          \/ /\ Removed
             /\ Len(threads) = Cardinality(Planned)
             /\ joined = Len(threads)
             /\ \A id \in Planned : Terminated(id))
    /\ [](Removed => \A k \in 1 .. Len(threads) : Terminated(threads[k]))

C14_Witness ==
    /\ pc = "done"
    /\ ~fileExists
    /\ args.threads = MaxThreads
    /\ joined = MaxThreads

\* C15: the launch loop body runs, and threads are started, only under a
\* plan with batch size > 0 and total >= 0.
C15_OnlyValidPlansScheduled ==
    (pc \in {"batch", "delay"} \/ threads # << >>) => ValidPlan

\* C16 as stated: with total > batch size fewer than total workers are in
\* flight at any time.
C16_InFlightBelowTotal ==
    (ValidPlan /\ args.threads > args.batch_size) =>
        Cardinality(InFlight) < args.threads

\* C16 as amended: the workers in flight are among those started so far,
\* which are at most range(threads); the pacing gives no smaller bound.
C16_InFlightAtMostLaunched ==
    /\ \A id \in InFlight : \E k \in 1 .. Len(threads) : threads[k] = id
    /\ Cardinality(InFlight) <= Len(threads)
    /\ Len(threads) <= Cardinality(Planned)

\* All workers of a run of more than one batch are in flight at once.
C16_Witness ==
    /\ ValidPlan
    /\ args.threads > args.batch_size
    /\ Cardinality(InFlight) = args.threads

\* C17: the detail of every outcome line is bounded: at most 300 characters
\* for MalformedResponse, at most 400 for Success, and an excerpt no longer
\* than the longest preview for TransportFailure and RuntimeFault.
C17_DetailBounded ==
    detail # Missing =>
        /\ kind = "MalformedResponse" => detail <= PreviewMalformed
        /\ kind = "Success" => detail <= PreviewSuccess
        /\ kind \in {"TransportFailure", "RuntimeFault"} => detail <= PreviewSuccess

\* C18: once the launch loop has ended with an exception and no started
\* worker is in flight any more, the payload file is gone.
C18_CleanupOnAbort ==
    (pc = "aborted" /\ InFlight = {}) => ~fileExists

\* C19: no worker's outcome line waits for another worker: a worker holding its
\* CompletedProcess, or in its except clause, can print whatever the
\* workers started before it are doing; and the outcome line that came last
\* of the run belongs to a started worker that has ended with that line,
\* whichever its index, when no worker is running any more.
C19_CompletionOrderFree ==
    /\ \A id \in Ids : wpc[id] = "got" => ENABLED WorkerReport(id)
    /\ \A id \in Ids : wpc[id] = "handler" => ENABLED WorkerExcept(id)
    /\ lastDone # Missing =>
          /\ wpc[lastDone] = "done"
          /\ Len(outcomes[lastDone]) = 1
          /\ InFlight = {}

\* Worker 0, started first, printed its outcome last; the run completed with
\* one outcome per worker and the payload file removed.
C19_Witness ==
    /\ pc = "done"
    /\ args.threads >= 2
    /\ lastDone = 0
    /\ \A id \in Planned : Len(outcomes[id]) = 1
    /\ Removed

\* C20: with --threads 0 or negative no thread is started, no sleep is made,
\* the join loop has nothing to pass, no outcome is printed and the main
\* thread goes from the built payload to os.remove without entering the loop
\* body.
C20_EmptyRun ==
    args.threads <= 0 =>
        /\ threads = << >>
        /\ joined = 0
        /\ interPauses = 0
        /\ batchPauses = 0
        /\ batchAfter = {}
        /\ \A id \in Ids : wpc[id] = "idle" /\ outcomes[id] = << >>
        /\ pc \notin {"batch", "delay", "aborted"}

C20_Witness ==
    /\ pc = "done"
    /\ args.threads = 0
    /\ args.batch_size = 0
    /\ Removed
    /\ threads = << >>

====
